---- MODULE Spec2Model ----
(***************************************************************************)
(* Model of historical_weather.py: the two click commands days_of_precip   *)
(* and max_temp_delta, the CSV ingestion read_file they call, and the      *)
(* helpers float_catch, Date.temp_delta and Date.total_precipitation.      *)
(*                                                                         *)
(* One behaviour is one process invocation: a command is invoked with its  *)
(* arguments, validates them, calls read_file (header row, then one step   *)
(* per data row, then the return), and runs its query on the returned      *)
(* dataset.  An exception nobody catches ends the process (pc = "raised"). *)
(*                                                                         *)
(* Texts are modelled by their structure: a NAME cell is its sequence of   *)
(* space-separated words, a DATE cell its sequence of dash-separated       *)
(* components, a numeric cell is empty, a decimal literal or junk.         *)
(* Numbers are integers (decimal literals without a fraction).             *)
(***************************************************************************)
EXTENDS Integers, Sequences, FiniteSets, TLC

VARIABLES
    pc,        \* position of the process
    cmd,       \* the command invoked: "days_of_precip" | "max_temp_delta"
    city,      \* argument city
    year,      \* option --year  (None when absent)
    month,     \* option --month (None when absent)
    headers,   \* the header row of the file
    data_pos,  \* read_file: header name -> 0-based column, -1 when absent
    rows,      \* the data rows read_file has taken from the reader so far
    data,      \* read_file: city key -> sequence of Date objects
    out,       \* what click.echo wrote to stdout
    err,       \* what click.echo(err=True) wrote to stderr
    exc,       \* the unhandled exception that ended the process, or "none"
    calls      \* number of calls of read_file

vars == <<pc, cmd, city, year, month, headers, data_pos, rows, data, out, err, exc, calls>>

\* Number of data rows of the largest file explored.
MaxRows == 3

---------------------------------------------------------------------------
\* Python's None and a present value.
None == [some |-> FALSE, val |-> 0]
Some(v) == [some |-> TRUE, val |-> v]

\* The dict literal's keys at read_file.
Required == {"NAME", "DATE", "PRCP", "SNOW", "TMAX", "TMIN"}

\* An empty dict.
EmptyDict == [k \in {} |-> 0]

---------------------------------------------------------------------------
\* float_catch with the failure turned into 0.0 instead of None.
float_catch_zero(string) ==
    IF string.kind = "num" THEN Some(string.val) ELSE Some(0)

\* float_catch: "" -> 0.0, a literal -> its value, anything else -> None
\* (after echoing a diagnostic, see FloatCatchErr).
float_catch(string) ==
    IF string.kind = "empty" THEN Some(0)
    ELSE IF string.kind = "num" THEN Some(string.val)
    ELSE None

\* The diagnostics float_catch echoes for the cell at row n.
FloatCatchErr(string, n) ==
    IF string.kind = "bad"
    THEN <<[kind |-> "float", row |-> n, missing |-> {}]>>
    ELSE <<>>

\* Date.temp_delta
temp_delta(d) == d.max_temp - d.min_temp

\* total_precipitation without the snowfall.
total_precipitation_rain_only(d) == d.precipitation

\* Date.total_precipitation
total_precipitation(d) == d.precipitation + d.snowfall

---------------------------------------------------------------------------
\* datetime.date's calendar.
IsLeap(y) == (y % 4 = 0) /\ ((y % 100 # 0) \/ (y % 400 = 0))

DaysInMonth(y, m) ==
    IF m = 2 THEN (IF IsLeap(y) THEN 29 ELSE 28)
    ELSE IF m \in {4, 6, 9, 11} THEN 30
    ELSE 31

\* ymd = [int(d) for d in ymd]; day = date(*ymd)
\* int() raises ValueError on the first component that is no integer literal;
\* date() raises TypeError unless it gets three arguments, OverflowError for
\* an argument beyond a C int, ValueError for a date outside the calendar.
ParseDate(ymd) ==
    IF \E i \in 1..Len(ymd) : ymd[i].kind = "bad"
    THEN [exc |-> "ValueError", date |-> <<>>]
    ELSE IF Len(ymd) # 3
    THEN [exc |-> "TypeError", date |-> <<>>]
    ELSE IF \E i \in 1..3 : ymd[i].kind = "huge"
    THEN [exc |-> "OverflowError", date |-> <<>>]
    ELSE IF \/ ymd[1].val < 1 \/ ymd[1].val > 9999
            \/ ymd[2].val < 1 \/ ymd[2].val > 12
            \/ ymd[3].val < 1 \/ ymd[3].val > DaysInMonth(ymd[1].val, ymd[2].val)
    THEN [exc |-> "ValueError", date |-> <<>>]
    ELSE [exc |-> "none",
          date |-> [year |-> ymd[1].val, month |-> ymd[2].val, day |-> ymd[3].val]]

\* except (ValueError, TypeError)
DateCaught(e) == e \in {"ValueError", "TypeError"}

\* str.lower() on the words the files use.
Lower(w) ==
    CASE w = "BOSTON," -> "boston,"
      [] w = "JUNEAU"  -> "juneau"
      [] w = "MIAMI"   -> "miami"
      [] OTHER         -> w

\* str.replace(",", "") on the words the files use.
StripCommas(w) ==
    CASE w = "boston," -> "boston"
      [] OTHER         -> w

\* row[data_pos["NAME"]].split(" ")[0].lower().replace(",", "")
CityKey(cell) == StripCommas(Lower(cell[1].text))

---------------------------------------------------------------------------
\* The command-line arguments and the files explored.

Cities == {"bos", "jnu", "mia", "nyc"}
Years  == {None, Some(2009), Some(2010), Some(2020)}
Months == {None, Some(0), Some(1), Some(13)}

W(t)  == [text |-> t]
DI(v) == [kind |-> "int", val |-> v]
DHuge == [kind |-> "huge", val |-> 0]   \* digits beyond a C int
DBad  == [kind |-> "bad", val |-> 0]    \* no integer literal
Num(v) == [kind |-> "num", val |-> v]
Empty  == [kind |-> "empty", val |-> 0]
Junk   == [kind |-> "bad", val |-> 0]

\* "BOSTON, MA US", "JUNEAU AIRPORT, AK US", "MIAMI INTERNATIONAL AIRPORT, FL US"
\* split on " ".
Boston == <<W("BOSTON,"), W("MA"), W("US")>>
Juneau == <<W("JUNEAU"), W("AIRPORT,"), W("AK"), W("US")>>
Miami  == <<W("MIAMI"), W("INTERNATIONAL"), W("AIRPORT,"), W("FL"), W("US")>>

Cells(name, ymd, prcp, snow, tmax, tmin) ==
    [NAME |-> name, DATE |-> ymd, PRCP |-> prcp, SNOW |-> snow, TMAX |-> tmax, TMIN |-> tmin]

GoodRows == {
    Cells(Boston, <<DI(2010), DI(1), DI(1)>>, Num(1), Num(0), Num(10), Num(0)),
    Cells(Boston, <<DI(2010), DI(1), DI(2)>>, Num(0), Empty,  Num(12), Num(2)),
    Cells(Boston, <<DI(2010), DI(2), DI(1)>>, Empty,  Num(2), Num(5),  Num(-7)),
    Cells(Boston, <<DI(2011), DI(1), DI(1)>>, Num(2), Num(1), Num(20), Num(5)),
    Cells(Juneau, <<DI(2012), DI(2), DI(29)>>, Num(0), Num(3), Num(-5), Num(-15)) }

BadDateRows == {
    Cells(Boston, <<DI(2015), DI(13), DI(40)>>, Num(1), Num(0), Num(10), Num(0)),
    Cells(Juneau, <<DI(2010), DBad, DI(1)>>,    Num(1), Num(0), Num(10), Num(0)),
    Cells(Boston, <<DI(2010), DI(1)>>,          Num(1), Num(0), Num(10), Num(0)),
    Cells(Boston, <<DHuge, DI(1), DI(1)>>,      Num(1), Num(0), Num(10), Num(0)) }

BadNumberRows == {
    Cells(Boston, <<DI(2010), DI(1), DI(3)>>, Junk,   Num(0), Num(10), Num(0)),
    Cells(Juneau, <<DI(2010), DI(1), DI(3)>>, Num(1), Junk,   Num(10), Num(0)),
    Cells(Boston, <<DI(2010), DI(1), DI(4)>>, Num(1), Num(0), Junk,    Num(0)),
    Cells(Miami,  <<DI(2010), DI(1), DI(3)>>, Num(1), Num(0), Num(10), Junk) }

\* The header rows explored: the export's (with a column the program does not
\* use), one without TMAX, one without NAME and SNOW.
HeaderRows == {
    <<"STATION", "NAME", "DATE", "PRCP", "SNOW", "TMAX", "TMIN">>,
    <<"NAME", "DATE", "PRCP", "SNOW", "TMIN">>,
    <<"STATION", "DATE", "PRCP", "TMAX", "TMIN">> }

\* The row csv.reader yields for the cells, laid out in the header's order;
\* a column the header does not name among the six holds an empty cell.
Layout(hs, cells) ==
    [i \in 1..Len(hs) |-> IF hs[i] \in DOMAIN cells THEN cells[hs[i]] ELSE Empty]

\* The rows a file with header hs may hold; csv.reader yields [] for a blank line.
FileRows(hs) ==
    {Layout(hs, c) : c \in GoodRows \cup BadDateRows \cup BadNumberRows} \cup {<<>>}

---------------------------------------------------------------------------
\* read_file

NoExc == [type |-> "none", at |-> ""]
Raise(t, f) == [type |-> t, at |-> f]

\* for n, header in enumerate(headers): if header in data_pos: data_pos[header] = n
\* (a later column of the same name overwrites an earlier one).
DataPos(hs) ==
    [h \in Required |->
        IF \E i \in 1..Len(hs) : hs[i] = h
        THEN (CHOOSE i \in 1..Len(hs) :
                 /\ hs[i] = h
                 /\ \A j \in 1..Len(hs) : hs[j] = h => j <= i) - 1
        ELSE -1]

\* if -1 in data_pos.values()
MissingColumns(pos) == \E h \in DOMAIN pos : pos[h] = -1

\* The message's argument, [header for (header, pos) in data_pos if pos == -1]:
\* iterating the dict yields its keys, and unpacking a key (a string of four
\* characters) into (header, pos) raises ValueError before anything is echoed.
\* data_pos is never empty, so the comprehension always raises.
MissingReport(pos) ==
    IF DOMAIN pos # {}
    THEN [exc |-> Raise("ValueError", "read_file"), err |-> <<>>]
    ELSE [exc |-> NoExc, err |-> <<[kind |-> "missing", row |-> -1, missing |-> {}]>>]

\* read_file without the creation of the city's list.
EnsureKey_never(d, name) == d

\* if name not in data: data[name] = []
EnsureKey(d, name) == IF name \notin DOMAIN d THEN d @@ (name :> <<>>) ELSE d

\* data[name].append(Date(day, precipitation, snowfall, max_temp, min_temp))
AppendDate(d, name, day, precipitation, snowfall, max_temp, min_temp) ==
    [d EXCEPT ![name] = Append(@,
        [date |-> day, precipitation |-> precipitation, snowfall |-> snowfall,
         max_temp |-> max_temp, min_temp |-> min_temp])]

\* row[data_pos[h]] raises IndexError when the row is too short.
HasCell(row, pos, h) == pos[h] < Len(row)
Cell(row, pos, h) == row[pos[h] + 1]

NumCols == <<"PRCP", "SNOW", "TMAX", "TMIN">>

\* The body of the loop over the reader for row number n: the dataset it
\* leaves, the diagnostics it echoes, the exception that escapes it.
RowStep(row, n, d, pos) ==
    IF ~HasCell(row, pos, "NAME")
    THEN [data |-> d, err |-> <<>>, exc |-> Raise("IndexError", "read_file")]
    ELSE
    LET name == CityKey(Cell(row, pos, "NAME"))
        d1   == EnsureKey(d, name)
    IN
    IF ~HasCell(row, pos, "DATE")
    THEN [data |-> d1, err |-> <<>>, exc |-> Raise("IndexError", "read_file")]
    ELSE
    LET day == ParseDate(Cell(row, pos, "DATE")) IN
    IF day.exc # "none"
    THEN IF DateCaught(day.exc)
         THEN [data |-> d1,
               err |-> <<[kind |-> "date", row |-> n, missing |-> {}]>>,
               exc |-> NoExc]
         ELSE [data |-> d1, err |-> <<>>, exc |-> Raise(day.exc, "read_file")]
    ELSE
    LET short == {k \in 1..4 : ~HasCell(row, pos, NumCols[k])}
        upto  == IF short = {} THEN 4
                 ELSE (CHOOSE k \in short : \A j \in short : k <= j) - 1
        E(k)  == IF k <= upto THEN FloatCatchErr(Cell(row, pos, NumCols[k]), n) ELSE <<>>
        ferr  == E(1) \o E(2) \o E(3) \o E(4)
    IN
    IF short # {}
    THEN [data |-> d1, err |-> ferr, exc |-> Raise("IndexError", "read_file")]
    ELSE
    LET precipitation == float_catch(Cell(row, pos, "PRCP"))
        snowfall      == float_catch(Cell(row, pos, "SNOW"))
        max_temp      == float_catch(Cell(row, pos, "TMAX"))
        min_temp      == float_catch(Cell(row, pos, "TMIN"))
    IN
    IF None \in {precipitation, snowfall, max_temp, min_temp}
    THEN [data |-> d1,
          err |-> ferr \o <<[kind |-> "weather", row |-> n, missing |-> {}]>>,
          exc |-> NoExc]
    ELSE [data |-> AppendDate(d1, name, day.date, precipitation.val, snowfall.val,
                              max_temp.val, min_temp.val),
          err |-> ferr,
          exc |-> NoExc]

\* The call: open the file, read the header row, fill data_pos, and leave
\* through the missing-columns branch when a required header is absent.
read_file_open ==
    /\ pc = "call_read_file"
    /\ \E hs \in HeaderRows :
        LET pos == DataPos(hs) IN
        /\ headers' = hs
        /\ data_pos' = pos
        /\ IF MissingColumns(pos)
           THEN LET r == MissingReport(pos) IN
                /\ err' = err \o r.err
                /\ exc' = r.exc
                /\ pc' = IF r.exc = NoExc THEN "returned_none" ELSE "raised"
           ELSE /\ pc' = "reading"
                /\ UNCHANGED <<err, exc>>
    /\ calls' = calls + 1
    /\ data' = EmptyDict
    /\ UNCHANGED <<cmd, city, year, month, rows, out>>

\* One iteration of "for n, row in enumerate(reader)".
read_file_row ==
    /\ pc = "reading"
    /\ Len(rows) < MaxRows
    /\ \E row \in FileRows(headers) :
        LET r == RowStep(row, Len(rows), data, data_pos) IN
        /\ rows' = Append(rows, row)
        /\ data' = r.data
        /\ err' = err \o r.err
        /\ exc' = r.exc
        /\ pc' = IF r.exc = NoExc THEN "reading" ELSE "raised"
    /\ UNCHANGED <<cmd, city, year, month, headers, data_pos, out, calls>>

\* The reader is exhausted: return data.
read_file_return ==
    /\ pc = "reading"
    /\ pc' = "returned"
    /\ UNCHANGED <<cmd, city, year, month, headers, data_pos, rows, data, out, err, exc, calls>>

---------------------------------------------------------------------------
\* The commands

Message(k) == [kind |-> k, row |-> -1, missing |-> {}]

\* days_of_precip's argument check: the message to echo, or "ok".
ValidateDaysOfPrecip(c) ==
    IF c \notin {"bos", "jnu", "mia"} THEN "city" ELSE "ok"

\* max_temp_delta's argument checks without "year is None".
ValidateMaxTempDelta_month_alone(y, m, c) ==
    IF c \notin {"bos", "jnu", "mia"} THEN "city"
    ELSE IF y # None /\ (y.val >= 2020 \/ y.val < 2010) THEN "year"
    ELSE IF m # None /\ (m.val > 12 \/ m.val < 1) THEN "month"
    ELSE "ok"

\* max_temp_delta's argument checks, in the code's order.
ValidateMaxTempDelta(y, m, c) ==
    IF c \notin {"bos", "jnu", "mia"} THEN "city"
    ELSE IF y # None /\ (y.val >= 2020 \/ y.val < 2010) THEN "year"
    ELSE IF m # None /\ (m.val > 12 \/ m.val < 1) THEN "month"
    ELSE IF m # None /\ y = None THEN "month_without_year"
    ELSE "ok"

\* if city == "bos": data = data["boston"] ...
DataKey(c) ==
    CASE c = "bos" -> "boston"
      [] c = "jnu" -> "juneau"
      [] c = "mia" -> "miami"

\* The exception data[key] raises on what read_file returned, or "none".
SelectExc(position, d, c) ==
    IF position = "returned_none" THEN "TypeError"
    ELSE IF DataKey(c) \notin DOMAIN d THEN "KeyError"
    ELSE "none"

\* dates_with_precip = [d.date for d in data if d.total_precipitation() > 0]
HasPrecip(d) == total_precipitation(d) > 0
DatesWithPrecip(ds) ==
    LET kept == SelectSeq(ds, HasPrecip) IN [i \in 1..Len(kept) |-> kept[i].date]

\* for d in dates_with_precip: year_days[d.year] (+)= 1
RECURSIVE YearDays(_)
YearDays(dates) ==
    IF dates = <<>> THEN EmptyDict
    ELSE LET year_days == YearDays(SubSeq(dates, 1, Len(dates) - 1))
             d == dates[Len(dates)]
             zeroed == IF d.year \notin DOMAIN year_days
                       THEN year_days @@ (d.year :> 0) ELSE year_days
         IN [zeroed EXCEPT ![d.year] = @ + 1]

\* sum(year_days.values())
RECURSIVE SumValues(_)
SumValues(f) ==
    IF DOMAIN f = {} THEN 0
    ELSE LET k == CHOOSE x \in DOMAIN f : TRUE
         IN f[k] + SumValues([x \in DOMAIN f \ {k} |-> f[x]])

\* sum(year_days.values()) / len(year_days.keys()): the quotient as the pair
\* of its numerator and denominator, ZeroDivisionError for an empty dict.
DaysOfPrecip(ds) ==
    LET year_days == YearDays(DatesWithPrecip(ds)) IN
    IF Cardinality(DOMAIN year_days) = 0
    THEN [exc |-> "ZeroDivisionError", value |-> [num |-> 0, den |-> 0]]
    ELSE [exc |-> "none",
          value |-> [num |-> SumValues(year_days), den |-> Cardinality(DOMAIN year_days)]]

\* tdeltas with the month comprehension forgetting the year.
Tdeltas_month_only(ds, y, m) ==
    LET InMonth(d) == d.date.month = m.val
        InYear(d)  == d.date.year = y.val
        kept == IF m # None THEN SelectSeq(ds, InMonth)
                ELSE IF y # None THEN SelectSeq(ds, InYear)
                ELSE ds
    IN [i \in 1..Len(kept) |-> <<kept[i].date, kept[i].max_temp - kept[i].min_temp>>]

\* The three list comprehensions building tdeltas.
Tdeltas(ds, y, m) ==
    LET InMonth(d) == d.date.month = m.val /\ d.date.year = y.val
        InYear(d)  == d.date.year = y.val
        kept == IF m # None THEN SelectSeq(ds, InMonth)
                ELSE IF y # None THEN SelectSeq(ds, InYear)
                ELSE ds
    IN [i \in 1..Len(kept) |-> <<kept[i].date, temp_delta(kept[i])>>]

\* A maximum that an item of equal key replaces too.
RECURSIVE MaxFrom_last(_, _)
MaxFrom_last(best, rest) ==
    IF rest = <<>> THEN best
    ELSE MaxFrom_last(IF Head(rest)[2] >= best[2] THEN Head(rest) ELSE best, Tail(rest))

\* max(tdeltas, key=operator.itemgetter(1)) on a non-empty list: the running
\* maximum is replaced only by an item whose key is greater.
RECURSIVE MaxFrom(_, _)
MaxFrom(best, rest) ==
    IF rest = <<>> THEN best
    ELSE MaxFrom(IF Head(rest)[2] > best[2] THEN Head(rest) ELSE best, Tail(rest))

\* max() raises ValueError on an empty list.
MaxByDelta(tdeltas) ==
    IF tdeltas = <<>>
    THEN [exc |-> "ValueError", value |-> <<>>]
    ELSE [exc |-> "none", value |-> MaxFrom(Head(tdeltas), Tail(tdeltas))]

\* days_of_precip up to its call of read_file.
days_of_precip ==
    /\ pc = "start"
    /\ \E c \in Cities :
        /\ cmd' = "days_of_precip"
        /\ city' = c
        /\ IF ValidateDaysOfPrecip(c) # "ok"
           THEN /\ err' = Append(err, Message(ValidateDaysOfPrecip(c)))
                /\ pc' = "rejected"
           ELSE /\ pc' = "call_read_file"
                /\ err' = err
    /\ UNCHANGED <<year, month, headers, data_pos, rows, data, out, exc, calls>>

\* max_temp_delta up to its call of read_file.
max_temp_delta ==
    /\ pc = "start"
    /\ \E y \in Years, m \in Months, c \in Cities :
        /\ cmd' = "max_temp_delta"
        /\ city' = c
        /\ year' = y
        /\ month' = m
        /\ IF ValidateMaxTempDelta(y, m, c) # "ok"
           THEN /\ err' = Append(err, Message(ValidateMaxTempDelta(y, m, c)))
                /\ pc' = "rejected"
           ELSE /\ pc' = "call_read_file"
                /\ err' = err
    /\ UNCHANGED <<headers, data_pos, rows, data, out, exc, calls>>

\* days_of_precip after read_file returned: pick the city, count, echo.
days_of_precip_query ==
    /\ pc \in {"returned", "returned_none"}
    /\ cmd = "days_of_precip"
    /\ LET sel == SelectExc(pc, data, city) IN
       IF sel # "none"
       THEN /\ exc' = Raise(sel, "days_of_precip")
            /\ pc' = "raised"
            /\ out' = out
       ELSE LET r == DaysOfPrecip(data[DataKey(city)]) IN
            IF r.exc # "none"
            THEN /\ exc' = Raise(r.exc, "days_of_precip")
                 /\ pc' = "raised"
                 /\ out' = out
            ELSE /\ out' = Append(out, [city |-> city, days_of_precip |-> r.value])
                 /\ pc' = "done"
                 /\ exc' = exc
    /\ UNCHANGED <<cmd, city, year, month, headers, data_pos, rows, data, err, calls>>

\* max_temp_delta after read_file returned: pick the city, filter, take the
\* maximum, echo.  round(x, 14) leaves the integer deltas of this model as
\* they are.
max_temp_delta_query ==
    /\ pc \in {"returned", "returned_none"}
    /\ cmd = "max_temp_delta"
    /\ LET sel == SelectExc(pc, data, city) IN
       IF sel # "none"
       THEN /\ exc' = Raise(sel, "max_temp_delta")
            /\ pc' = "raised"
            /\ out' = out
       ELSE LET r == MaxByDelta(Tdeltas(data[DataKey(city)], year, month)) IN
            IF r.exc # "none"
            THEN /\ exc' = Raise(r.exc, "max_temp_delta")
                 /\ pc' = "raised"
                 /\ out' = out
            ELSE /\ out' = Append(out, [city |-> city, date |-> r.value[1],
                                        temp_change |-> r.value[2]])
                 /\ pc' = "done"
                 /\ exc' = exc
    /\ UNCHANGED <<cmd, city, year, month, headers, data_pos, rows, data, err, calls>>

---------------------------------------------------------------------------
Init ==
    /\ pc = "start"
    /\ cmd = ""
    /\ city = ""
    /\ year = None
    /\ month = None
    /\ headers = <<>>
    /\ data_pos = DataPos(<<>>)
    /\ rows = <<>>
    /\ data = EmptyDict
    /\ out = <<>>
    /\ err = <<>>
    /\ exc = NoExc
    /\ calls = 0

Next ==
    \/ days_of_precip
    \/ max_temp_delta
    \/ read_file_open
    \/ read_file_row
    \/ read_file_return
    \/ days_of_precip_query
    \/ max_temp_delta_query

Spec == Init /\ [][Next]_vars

---------------------------------------------------------------------------
\* What the properties below speak of, stated on the file itself (the header
\* row and the rows read) and on the arguments, not through read_file.

HeaderSet == {headers[i] : i \in 1..Len(headers)}
Absent == Required \ HeaderSet
Col(h) == CHOOSE i \in 1..Len(headers) : headers[i] = h

\* The row has a cell in every column of the header.
FullRow(row) == Len(row) = Len(headers)

MonthLengths == <<31, 28, 31, 30, 31, 30, 31, 31, 30, 31, 30, 31>>

\* The cell is YYYY-MM-DD for a day of the proleptic Gregorian calendar.
DateOk(cell) ==
    /\ Len(cell) = 3
    /\ \A i \in 1..3 : cell[i].kind = "int"
    /\ cell[1].val \in 1..9999
    /\ cell[2].val \in 1..12
    /\ cell[3].val >= 1
    /\ \/ cell[3].val <= MonthLengths[cell[2].val]
       \/ /\ cell[2].val = 2
          /\ cell[3].val = 29
          /\ cell[1].val % 4 = 0
          /\ (cell[1].val % 100 # 0 \/ cell[1].val % 400 = 0)

NumOk(cell) == cell.kind \in {"empty", "num"}
NumVal(cell) == IF cell.kind = "num" THEN cell.val ELSE 0

\* The date and the four numeric cells of the row all parse.
RowParses(row) ==
    /\ FullRow(row)
    /\ DateOk(row[Col("DATE")])
    /\ \A h \in {"PRCP", "SNOW", "TMAX", "TMIN"} : NumOk(row[Col(h)])

\* The row has its cells and its date or one of its numeric cells does not parse.
RowUnparseable(row) == FullRow(row) /\ ~RowParses(row)

\* The city key of the row's station name.
RowKey(row) ==
    CASE row[Col("NAME")] = Boston -> "boston"
      [] row[Col("NAME")] = Juneau -> "juneau"
      [] row[Col("NAME")] = Miami  -> "miami"

\* The Record of a row that parses.
RecordOf(row) ==
    [date |-> [year  |-> row[Col("DATE")][1].val,
               month |-> row[Col("DATE")][2].val,
               day   |-> row[Col("DATE")][3].val],
     precipitation |-> NumVal(row[Col("PRCP")]),
     snowfall      |-> NumVal(row[Col("SNOW")]),
     max_temp      |-> NumVal(row[Col("TMAX")]),
     min_temp      |-> NumVal(row[Col("TMIN")])]

\* The Records of the rows of city k that parse, in file order.
RECURSIVE RecordsOf(_, _)
RecordsOf(rs, k) ==
    IF rs = <<>> THEN <<>>
    ELSE IF RowParses(Head(rs)) /\ RowKey(Head(rs)) = k
         THEN <<RecordOf(Head(rs))>> \o RecordsOf(Tail(rs), k)
         ELSE RecordsOf(Tail(rs), k)

\* The numbers of the rows of city k that parse.
ParsedRowsOf(k) == {n \in 1..Len(rows) : RowParses(rows[n]) /\ RowKey(rows[n]) = k}

\* The arguments pass every check of the command.
ArgsAccepted ==
    /\ city \in {"bos", "jnu", "mia"}
    /\ cmd = "max_temp_delta" =>
        /\ year = None \/ year.val \in 2010..2019
        /\ month = None \/ month.val \in 1..12
        /\ month # None => year # None

\* The selected city has a sequence in the dataset read_file returned.
CitySelected ==
    /\ pc \in {"done", "raised"}
    /\ exc.at # "read_file"
    /\ city \in {"bos", "jnu", "mia"}
    /\ DataKey(city) \in DOMAIN data

Selected == data[DataKey(city)]

\* The positions of the selected city's records with precipitation or snow.
PrecipIdx == {i \in 1..Len(Selected) : Selected[i].precipitation + Selected[i].snowfall > 0}

\* The positions of the selected city's records the year/month filter keeps.
ConsideredIdx ==
    {i \in 1..Len(Selected) :
        \/ year = None /\ month = None
        \/ year # None /\ month = None /\ Selected[i].date.year = year.val
        \/ /\ year # None /\ month # None
           /\ Selected[i].date.year = year.val
           /\ Selected[i].date.month = month.val}

Delta(i) == Selected[i].max_temp - Selected[i].min_temp

\* The considered positions whose delta no considered position exceeds.
MaximalIdx == {i \in ConsideredIdx : \A j \in ConsideredIdx : Delta(j) <= Delta(i)}

---------------------------------------------------------------------------
\* C1: when the header row lacks a required header, read_file echoes a
\* diagnostic naming exactly the absent headers, returns no dataset and
\* reads no data row (it ends by returning, not by an exception).
C1_MissingColumnsReported ==
    (calls = 1 /\ Absent # {}) =>
        /\ exc = NoExc
        /\ pc = "returned_none"
        /\ rows = <<>>
        /\ \E i \in 1..Len(err) : err[i].kind = "missing" /\ err[i].missing = Absent

\* C2: with all required headers present, a row whose DATE or numeric cell
\* cannot be parsed is dropped without aborting read_file, and the dataset
\* read_file returns holds, per city key, the Records of the rows that parse,
\* in file order, duplicates included.
C2_BadRowsDroppedNotFatal ==
    /\ (rows # <<>> /\ RowUnparseable(rows[Len(rows)])) => exc.at # "read_file"
    /\ pc = "returned" =>
        \A n \in 1..Len(rows) :
            RowParses(rows[n]) =>
                /\ RowKey(rows[n]) \in DOMAIN data
                /\ data[RowKey(rows[n])] = RecordsOf(rows, RowKey(rows[n]))

\* C3: at every point of ingestion every Record in the dataset is the Record
\* of a row of its city whose date and four numeric cells all parsed, and a
\* city holds as many Records as it has such rows: a row with a cell that
\* fails to parse, whichever it is, contributes none.
C3_RecordsOnlyFromParsedRows ==
    LET all == {n \in 1..Len(rows) : RowParses(rows[n])} IN
    \A k \in DOMAIN data :
        LET parsed == {n \in all : RowKey(rows[n]) = k} IN
        /\ Len(data[k]) = Cardinality(parsed)
        /\ \A i \in 1..Len(data[k]) :
            \E n \in parsed : data[k][i] = RecordOf(rows[n])

\* C3 witness: read_file returned after a row whose TMIN (the last cell
\* parsed) is junk, a row whose date is bad and a row that parses.
C3_Witness ==
    /\ pc = "returned"
    /\ \E n \in 1..Len(rows) : DateOk(rows[n][Col("DATE")]) /\ ~NumOk(rows[n][Col("TMIN")])
    /\ \E n \in 1..Len(rows) : ~DateOk(rows[n][Col("DATE")])
    /\ \E k \in DOMAIN data : data[k] # <<>>

\* C4: when the city has a record with total precipitation > 0,
\* days_of_precip echoes (number of such records) / (number of distinct years
\* among them); duplicates are counted, years without such a record are not.
C4_DaysOfPrecipQuotient ==
    (pc = "done" /\ cmd = "days_of_precip") =>
        /\ Len(out) = 1
        /\ out[1].city = city
        /\ out[1].days_of_precip =
            [num |-> Cardinality(PrecipIdx),
             den |-> Cardinality({Selected[i].date.year : i \in PrecipIdx})]

\* C4 witness: a result over two records of the same date with precipitation
\* and a record of another year without any.
C4_Witness ==
    /\ pc = "done" /\ cmd = "days_of_precip"
    /\ \E i, j \in PrecipIdx : i # j /\ Selected[i].date = Selected[j].date
    /\ \E i \in 1..Len(Selected) :
        \A j \in PrecipIdx : Selected[j].date.year # Selected[i].date.year

\* C5: when the city has no record with total precipitation > 0,
\* days_of_precip echoes no result, reports the condition as an error and
\* does not end by an unhandled exception.
C5_NoPrecipReported ==
    (cmd = "days_of_precip" /\ CitySelected /\ PrecipIdx = {}) =>
        /\ out = <<>>
        /\ exc = NoExc
        /\ \E i \in 1..Len(err) : err[i].kind = "no_precipitation"

\* C6: when the year/month filter keeps no record of the city,
\* max_temp_delta reports an error, echoes no result and does not end by an
\* unhandled exception.
C6_EmptyFilterReported ==
    (cmd = "max_temp_delta" /\ CitySelected /\ ConsideredIdx = {}) =>
        /\ out = <<>>
        /\ exc = NoExc
        /\ \E i \in 1..Len(err) : err[i].kind = "no_records"

\* C7: max_temp_delta echoes the date and delta of a record among those the
\* year/month arguments select (all; those of the year; those of the year and
\* month), and no selected record has a greater delta.
C7_MaxOverConsidered ==
    (pc = "done" /\ cmd = "max_temp_delta") =>
        /\ Len(out) = 1
        /\ \E i \in ConsideredIdx :
            /\ out[1].date = Selected[i].date
            /\ out[1].temp_change = Delta(i)
        /\ \A j \in ConsideredIdx : Delta(j) <= out[1].temp_change

\* C7 witness: a result under a year and month filter that leaves out a
\* record of another year, same month, with a greater delta than any kept.
C7_Witness ==
    /\ pc = "done" /\ cmd = "max_temp_delta"
    /\ year # None /\ month # None
    /\ Cardinality(ConsideredIdx) >= 2
    /\ \E i \in 1..Len(Selected) :
        /\ i \notin ConsideredIdx
        /\ Selected[i].date.month = month.val
        /\ Delta(i) > out[1].temp_change

\* C8: among the selected records of maximal delta, max_temp_delta echoes the
\* date of the one that comes first in the city's sequence.
C8_FirstMaxWins ==
    (pc = "done" /\ cmd = "max_temp_delta") =>
        \E i \in MaximalIdx :
            /\ \A j \in MaximalIdx : i <= j
            /\ out[1].date = Selected[i].date

\* C8 witness: a result where two records of different dates tie for the
\* maximal delta.
C8_Witness ==
    /\ pc = "done" /\ cmd = "max_temp_delta"
    /\ \E i, j \in MaximalIdx : Selected[i].date # Selected[j].date

\* C9: read_file is called at most once and only with arguments that passed
\* every check; arguments failing a check end the command with an error
\* message, without a call of read_file and without output.
C9_RejectedBeforeReadFile ==
    /\ calls \in {0, 1}
    /\ calls = 1 => ArgsAccepted
    /\ (pc # "start" /\ ~ArgsAccepted) =>
        /\ pc = "rejected"
        /\ calls = 0
        /\ out = <<>>
        /\ err # <<>>

\* C9 witness: max_temp_delta rejected for a valid month given without a year.
C9_Witness ==
    /\ pc = "rejected" /\ cmd = "max_temp_delta"
    /\ city = "bos" /\ year = None /\ month = Some(1)

\* C10, as claimed: every city key of the dataset read_file returns maps to
\* a non-empty sequence.
C10_KeysNonEmpty ==
    pc = "returned" => \A k \in DOMAIN data : data[k] # <<>>

\* C10, amended: a city's sequence is created when the first row bearing its
\* key is read, before the row is parsed: the keys of the returned dataset
\* are the city keys of all rows read, and a key maps to the empty sequence
\* exactly when none of its city's rows parsed.
C10_KeysOfAllRows ==
    pc = "returned" =>
        /\ DOMAIN data = {RowKey(rows[n]) : n \in 1..Len(rows)}
        /\ \A k \in DOMAIN data : (data[k] = <<>>) <=> (ParsedRowsOf(k) = {})

\* C10 witness: a returned dataset with a city all of whose rows were
\* skipped next to a city with a Record.
C10_Witness ==
    /\ pc = "returned"
    /\ \E k \in DOMAIN data : data[k] = <<>>
    /\ \E k \in DOMAIN data : data[k] # <<>>

====
